---- MODULE Spec2Model ----
(***************************************************************************)
(* Model of plan/optimizer.go of gwhmma/tidb: the driver Optimize /        *)
(* BuildLogicalPlan, the privilege check, the rule pipeline                *)
(* logicalOptimize, the cartesian guard existsCartesianProduct and          *)
(* physicalOptimize.  The planBuilder, the eight rules, the privilege       *)
(* manager and the physical search are external to the file: their         *)
(* outcomes are drawn nondeterministically from small sets.                *)
(***************************************************************************)
EXTENDS Integers, Sequences, FiniteSets, TLC

VARIABLES
    AllowCartesianProduct, \* the package-level policy flag
    pc,                    \* position of the running call
    entry,                 \* the function the caller entered
    p,                     \* plan returned by builder.build
    visitInfo,             \* builder.visitInfo
    optFlag,               \* builder.optFlag
    pm,                    \* privilege manager of the session
    vi,                    \* index of the range loop of checkPrivilege
    verified,              \* records handed to RequestVerification, in order
    flag,                  \* parameter flag of logicalOptimize
    input,                 \* parameter logic of logicalOptimize, as passed
    logic,                 \* local variable logic
    err,                   \* local variable err
    i,                     \* index of the range loop of logicalOptimize
    invoked,               \* catalog indices of the rules invoked, in order
    ruleArg,               \* plan received by the rule invoked last
    ruleRet,               \* plan returned by the rule invoked last
    allowRead,             \* value of AllowCartesianProduct read by the guard
    prop,                  \* requiredProp handed to findBestTask
    task,                  \* task returned by findBestTask
    physical,              \* physical plan under construction
    trace,                 \* phases run by the current call, in order
    rets,                  \* return values of the functions of the call
    allowAtStart,          \* value of AllowCartesianProduct when the call started
    db,                    \* memDbBuffer.db, the MemBuffer of the BufferStore
    store,                 \* the store behind the Retriever r and the Mutator m
    lastWrite,             \* last write each key received since the last Reset
    kpc,                   \* position of the running walk
    kop,                   \* the last call on the buffer and what it returned
    iter,                  \* the iterator of the running walk
    fcalls,                \* calls of f made by the running walk, in order
    viewBefore             \* BufferStore.Get of every key when SaveTo started

vars == <<AllowCartesianProduct, pc, entry, p, visitInfo, optFlag, pm, vi,
          verified, flag, input, logic, err, i, invoked, ruleArg, ruleRet,
          allowRead, prop, task, physical, trace, rets, allowAtStart,
          db, store, lastWrite, kpc, kop, iter, fcalls, viewBefore>>

kvVars == <<db, store, lastWrite, kpc, kop, iter, fcalls, viewBefore>>

optVars == <<AllowCartesianProduct, pc, entry, p, visitInfo, optFlag, pm, vi,
             verified, flag, input, logic, err, i, invoked, ruleArg, ruleRet,
             allowRead, prop, task, physical, trace, rets, allowAtStart>>

----------------------------------------------------------------------------
(* Bounds *)

\* flag is a uint64; the model keeps its low FlagBits bits
FlagBits == 9
\* number of nodes of the plans handed to existsCartesianProduct alone
MaxNodes == 5
\* a join holds 0..MaxEqualConditions equality conditions
MaxEqualConditions == 1
\* length of builder.visitInfo
MaxVisit == 2

----------------------------------------------------------------------------
(* Plans *)

InnerJoin == "InnerJoin"
LeftOuterJoin == "LeftOuterJoin"
RightOuterJoin == "RightOuterJoin"
SemiJoin == "SemiJoin"
JoinTypes == {InnerJoin, LeftOuterJoin, RightOuterJoin, SemiJoin}

NilPlan == [tp |-> "nil", JoinType |-> "", EqualConditions |-> 0, children |-> <<>>]
DataSource == [tp |-> "DataSource", JoinType |-> "", EqualConditions |-> 0, children |-> <<>>]
LogicalSelection(c) == [tp |-> "LogicalSelection", JoinType |-> "", EqualConditions |-> 0, children |-> <<c>>]
LogicalJoin(t, n, l, r) == [tp |-> "LogicalJoin", JoinType |-> t, EqualConditions |-> n, children |-> <<l, r>>]

\* non-logical plans the builder can return
Execute == [tp |-> "Execute", JoinType |-> "", EqualConditions |-> 0, children |-> <<>>]
Insert == [tp |-> "Insert", JoinType |-> "", EqualConditions |-> 0, children |-> <<>>]

IsLogicalPlan(q) == q.tp \in {"DataSource", "LogicalSelection", "LogicalJoin"}

Children(q) == q.children

RECURSIVE PlansOfSize(_)
PlansOfSize(n) ==
    IF n = 1 THEN {DataSource}
    ELSE {LogicalSelection(c) : c \in PlansOfSize(n - 1)}
         \cup UNION {{LogicalJoin(t, e, l, r) :
                          t \in JoinTypes, e \in 0..MaxEqualConditions,
                          l \in PlansOfSize(k), r \in PlansOfSize(n - 1 - k)}
                     : k \in 1..(n - 2)}

\* every logical plan of at most MaxNodes nodes
AllPlans == UNION {PlansOfSize(n) : n \in 1..MaxNodes}

\* the logical plans the builder and the rules produce in the driver
SamplePlans ==
    {DataSource,
     LogicalJoin(InnerJoin, 0, DataSource, DataSource),
     LogicalJoin(InnerJoin, 1, DataSource, DataSource),
     LogicalJoin(SemiJoin, 0,
                 LogicalJoin(InnerJoin, 0, DataSource, DataSource), DataSource)}

\* physical plans: the plan of a task, then ResolveIndices, then
\* eliminatePhysicalProjection
PhysicalOf(q) == [tp |-> "PhysicalPlan", of |-> q, resolved |-> FALSE, eliminated |-> FALSE]
\* a plan handed on with its indices unresolved
ResolveIndicesSkipped(q) == q

ResolveIndices(q) == [q EXCEPT !.resolved = TRUE]
eliminatePhysicalProjection(q) == [q EXCEPT !.eliminated = TRUE]

----------------------------------------------------------------------------
(* Errors *)

NilErr == [msg |-> "nil", args |-> <<>>]
ErrBuilder == [msg |-> "builder.err", args |-> <<>>]
\* an error that carries the record under verification
ErrPrivilegeNamesRecord == [msg |-> "privilege check fail", args |-> <<visitInfo[vi]>>]

ErrPrivilegeCheckFail == [msg |-> "privilege check fail", args |-> <<>>]
ErrCartesianProductUnsupported == [msg |-> "ErrCartesianProductUnsupported", args |-> <<>>]
ErrNoPhysicalPlan == [msg |-> "ErrInternal: Can't find a proper physical plan for this query", args |-> <<>>]
ErrDeriveStats == [msg |-> "deriveStats error", args |-> <<>>]
ErrFindBestTask == [msg |-> "findBestTask error", args |-> <<>>]
ErrPreparedPlan == [msg |-> "optimizePreparedPlan error", args |-> <<>>]

----------------------------------------------------------------------------
(* Rule catalog and flags *)

flagPrunColumns == 1
flagEliminateProjection == 2
flagBuildKeyInfo == 4
flagDecorrelate == 8
flagMaxMinEliminate == 16
flagPredicatePushDown == 32
flagAggregationOptimize == 64
flagPushDownTopN == 128

optRuleList == <<"columnPruner", "projectionEliminater", "buildKeySolver",
                 "decorrelateSolver", "maxMinEliminator", "ppdSolver",
                 "aggregationOptimizer", "pushDownTopNOptimizer">>

\* the error of rule k (catalog index, from 0)
RuleErr(k) == [msg |-> optRuleList[k + 1], args |-> <<>>]

Flags == 0..(2^FlagBits - 1)

\* the flags the builder sets in the driver
SampleFlags ==
    {0,
     flagPrunColumns,
     flagBuildKeyInfo + flagPredicatePushDown,
     flagPrunColumns + flagPushDownTopN,
     2^8 + flagEliminateProjection,
     2^8 - 1}

\* the test of the neighbouring bit
RuleSelectedShifted(f, k) == (f \div (2^(k + 1))) % 2 = 1

\* flag&(1<<uint(i)) != 0
RuleSelected(f, k) == (f \div (2^k)) % 2 = 1

----------------------------------------------------------------------------
(* Cartesian guard *)

RECURSIVE existsCartesianProduct(_)
existsCartesianProduct(q) ==
    IF q.tp = "LogicalJoin" /\ q.EqualConditions = 0
    THEN q.JoinType \in {InnerJoin, LeftOuterJoin, RightOuterJoin}
    ELSE \E k \in 1..Len(Children(q)) : existsCartesianProduct(Children(q)[k])

----------------------------------------------------------------------------
(* Privilege check *)

VisitRecords ==
    {[db |-> "test", table |-> "T", column |-> "", privilege |-> "SELECT"],
     [db |-> "test", table |-> "U", column |-> "", privilege |-> "INSERT"]}

VisitInfos == UNION {[1..n -> VisitRecords] : n \in 0..MaxVisit}

NoManager == [present |-> FALSE, denied |-> {}]
Managers == {NoManager} \cup {[present |-> TRUE, denied |-> D] : D \in SUBSET VisitRecords}

RequestVerification(m, v) == v \notin m.denied

----------------------------------------------------------------------------
(* Keys, values and the memdb of memDbBuffer *)

\* keys are byte strings, ordered by bytes.Compare
Keys == {<<1>>, <<1, 1, 1, 1, 1>>, <<2>>}
NilKey == <<>>

\* the values callers hand to Set
Values == {<<>>, <<7>>, <<7, 8, 9>>}

\* the values the store holds when a BufferStore is put over it
StoreValues == {<<9>>}

\* memDbBuffer.entrySizeLimit, bufferLenLimit and bufferSizeLimit
entrySizeLimit == 4
bufferLenLimit == 2
bufferSizeLimit == 8

NoEntry == [has |-> FALSE, val |-> <<>>]
Entry(v) == [has |-> TRUE, val |-> v]
EmptyDB == [k \in Keys |-> NoEntry]

\* db.Put(k, v)
Put(d, k, v) == [d EXCEPT ![k] = Entry(v)]

DBKeys(d) == {k \in Keys : d[k].has}

\* db.Len()
DBLen(d) == Cardinality(DBKeys(d))

RECURSIVE SumSize(_, _)
SumSize(d, S) ==
    IF S = {} THEN 0
    ELSE LET k == CHOOSE x \in S : TRUE
         IN Len(k) + Len(d[k].val) + SumSize(d, S \ {k})

\* db.Size()
DBSize(d) == SumSize(d, DBKeys(d))

\* bytes.Compare(a, b) < 0
RECURSIVE KeyLess(_, _)
KeyLess(a, b) ==
    IF a = <<>> THEN b # <<>>
    ELSE IF b = <<>> THEN FALSE
    ELSE IF a[1] # b[1] THEN a[1] < b[1]
    ELSE KeyLess(Tail(a), Tail(b))

\* the keys of S in the order the memdb iterates them
RECURSIVE SortKeys(_)
SortKeys(S) ==
    IF S = {} THEN <<>>
    ELSE LET m == CHOOSE k \in S : \A o \in S \ {k} : KeyLess(k, o)
         IN <<m>> \o SortKeys(S \ {m})

\* kv errors
ErrNil == "nil"
ErrNotExist == "ErrNotExist"
ErrCannotSetNilValue == "ErrCannotSetNilValue"
ErrEntryTooLarge == "ErrEntryTooLarge"
ErrTxnTooLarge == "ErrTxnTooLarge"
ErrMutator == "mutator error"
ErrWalkFunc == "f error"

\* IsErrNotFound(err)
IsErrNotFound(e) == e = ErrNotExist

Result(v, e) == [val |-> v, err |-> e]

NoWrite == [op |-> "none", val |-> <<>>]
NoOp == [fn |-> "", k |-> NilKey, v |-> <<>>, val |-> <<>>, err |-> ErrNil, readR |-> FALSE]
NoIter == [start |-> NilKey, idx |-> 0, open |-> FALSE, released |-> FALSE]
NoView == [k \in Keys |-> Result(<<>>, ErrNil)]

----------------------------------------------------------------------------
(* Calls *)

Funcs == {"Optimize", "BuildLogicalPlan", "doOptimize", "logicalOptimize",
          "physicalOptimize", "existsCartesianProduct"}

NoRet == [returned |-> FALSE, plan |-> NilPlan, err |-> NilErr, ok |-> FALSE]
Ret(q, e) == [returned |-> TRUE, plan |-> q, err |-> e, ok |-> FALSE]
RetBool(b) == [returned |-> TRUE, plan |-> NilPlan, err |-> NilErr, ok |-> b]

rootProp == [taskTp |-> "rootTaskType", expectedCnt |-> "MaxFloat64", cols |-> <<>>]
NoProp == [taskTp |-> "", expectedCnt |-> "", cols |-> <<>>]
NoTask == [plan |-> NilPlan, invalid |-> FALSE]

Init ==
    /\ AllowCartesianProduct = TRUE
    /\ pc = "idle"
    /\ entry = ""
    /\ p = NilPlan
    /\ visitInfo = <<>>
    /\ optFlag = 0
    /\ pm = NoManager
    /\ vi = 1
    /\ verified = <<>>
    /\ flag = 0
    /\ input = NilPlan
    /\ logic = NilPlan
    /\ err = NilErr
    /\ i = 0
    /\ invoked = <<>>
    /\ ruleArg = NilPlan
    /\ ruleRet = NilPlan
    /\ allowRead = TRUE
    /\ prop = NoProp
    /\ task = NoTask
    /\ physical = NilPlan
    /\ trace = <<>>
    /\ rets = [f \in Funcs |-> NoRet]
    /\ allowAtStart = TRUE
    /\ db = EmptyDB
    /\ store = EmptyDB
    /\ lastWrite = [k \in Keys |-> NoWrite]
    /\ kpc = "idle"
    /\ kop = NoOp
    /\ iter = NoIter
    /\ fcalls = <<>>
    /\ viewBefore = NoView

\* state of a fresh call: everything but the global, the entry and the session
Fresh ==
    /\ p' = NilPlan
    /\ visitInfo' = <<>>
    /\ optFlag' = 0
    /\ vi' = 1
    /\ verified' = <<>>
    /\ flag' = 0
    /\ input' = NilPlan
    /\ logic' = NilPlan
    /\ err' = NilErr
    /\ i' = 0
    /\ invoked' = <<>>
    /\ ruleArg' = NilPlan
    /\ ruleRet' = NilPlan
    /\ allowRead' = TRUE
    /\ prop' = NoProp
    /\ task' = NoTask
    /\ physical' = NilPlan
    /\ trace' = <<>>
    /\ rets' = [f \in Funcs |-> NoRet]
    /\ allowAtStart' = AllowCartesianProduct

\* another goroutine or the server start-up assigns the exported variable
SetAllowCartesianProduct ==
    /\ AllowCartesianProduct' = ~AllowCartesianProduct
    /\ UNCHANGED <<pc, entry, p, visitInfo, optFlag, pm, vi, verified, flag,
                   input, logic, err, i, invoked, ruleArg, ruleRet, allowRead,
                   prop, task, physical, trace, rets>>
    /\ UNCHANGED <<allowAtStart, kvVars>>

----------------------------------------------------------------------------
(* Optimize and BuildLogicalPlan *)

Idle == pc \in {"idle", "done"}

CallOptimize ==
    /\ Idle
    /\ entry' = "Optimize"
    /\ pm' \in Managers
    /\ pc' = "build"
    /\ Fresh
    /\ UNCHANGED AllowCartesianProduct
    /\ UNCHANGED kvVars

CallBuildLogicalPlan ==
    /\ Idle
    /\ entry' = "BuildLogicalPlan"
    /\ pm' = NoManager
    /\ pc' = "build"
    /\ Fresh
    /\ UNCHANGED AllowCartesianProduct
    /\ UNCHANGED kvVars

\* what Optimize returns when the builder failed
BuildFailure == Ret(NilPlan, ErrBuilder)

\* builder.build(node) and the test of builder.err; BuildLogicalPlan
\* returns here
Build ==
    /\ pc = "build"
    /\ trace' = Append(trace, "build")
    /\ \/ /\ rets' = [rets EXCEPT ![entry] = BuildFailure]
          /\ pc' = "done"
          /\ UNCHANGED <<p, visitInfo, optFlag>>
       \/ \E q \in SamplePlans \cup {Execute, Insert}, vs \in VisitInfos :
          \E f \in (IF IsLogicalPlan(q) THEN SampleFlags ELSE {0}) :
             /\ p' = q
             /\ visitInfo' = vs
             /\ optFlag' = f
             /\ IF entry = "BuildLogicalPlan"
                THEN /\ rets' = [rets EXCEPT ![entry] = Ret(q, NilErr)]
                     /\ pc' = "done"
                ELSE /\ pc' = "privilege"
                     /\ UNCHANGED rets
    /\ UNCHANGED <<AllowCartesianProduct, entry, pm, vi, verified, flag, input,
                   logic, err, i, invoked, ruleArg, ruleRet, allowRead, prop,
                   task, physical>>
    /\ UNCHANGED <<allowAtStart, kvVars>>

\* if pm := privilege.GetPrivilegeManager(ctx); pm != nil
Privilege ==
    /\ pc = "privilege"
    /\ trace' = Append(trace, "privilege")
    /\ vi' = 1
    /\ pc' = IF pm.present THEN "checkPrivilege" ELSE "dispatch"
    /\ UNCHANGED <<AllowCartesianProduct, entry, p, visitInfo, optFlag, pm,
                   verified, flag, input, logic, err, i, invoked, ruleArg,
                   ruleRet, allowRead, prop, task, physical, rets>>
    /\ UNCHANGED <<allowAtStart, kvVars>>

\* errors.New("privilege check fail")
PrivilegeFailure == Ret(NilPlan, ErrPrivilegeCheckFail)

\* a loop that stops one record early
RangeDoneEarly == vi >= Len(visitInfo)

\* for _, v := range vs has no record left
RangeDone == vi > Len(visitInfo)

\* one iteration of the loop of checkPrivilege, or its return of true;
\* a return of false makes Optimize return
checkPrivilege ==
    /\ pc = "checkPrivilege"
    /\ IF RangeDone
       THEN /\ pc' = "dispatch"
            /\ UNCHANGED <<vi, verified, rets>>
       ELSE /\ verified' = Append(verified, visitInfo[vi])
            /\ IF RequestVerification(pm, visitInfo[vi])
               THEN /\ vi' = vi + 1
                    /\ pc' = "checkPrivilege"
                    /\ UNCHANGED rets
               ELSE /\ rets' = [rets EXCEPT !["Optimize"] = PrivilegeFailure]
                    /\ pc' = "done"
                    /\ UNCHANGED vi
    /\ UNCHANGED <<AllowCartesianProduct, entry, p, visitInfo, optFlag, pm,
                   flag, input, logic, err, i, invoked, ruleArg, ruleRet,
                   allowRead, prop, task, physical, trace>>
    /\ UNCHANGED <<allowAtStart, kvVars>>

\* a type switch that takes every plan for an Execute
IsExecuteAny(q) == TRUE

\* execPlan, ok := p.(*Execute)
IsExecute(q) == q = Execute

\* the two type switches at the end of Optimize
Dispatch ==
    /\ pc = "dispatch"
    /\ IF IsLogicalPlan(p)
       THEN /\ flag' = optFlag
            /\ input' = p
            /\ logic' = p
            /\ pc' = "logicalOptimize"
            /\ trace' = Append(trace, "logicalOptimize")
            /\ UNCHANGED rets
       ELSE /\ IF IsExecute(p)
               THEN /\ pc' = "optimizePreparedPlan"
                    /\ UNCHANGED rets
               ELSE /\ rets' = [rets EXCEPT !["Optimize"] = Ret(p, NilErr)]
                    /\ pc' = "done"
            /\ UNCHANGED <<flag, input, logic, trace>>
    /\ UNCHANGED <<AllowCartesianProduct, entry, p, visitInfo, optFlag, pm,
                   vi, verified, err, i, invoked, ruleArg, ruleRet, allowRead,
                   prop, task, physical>>
    /\ UNCHANGED <<allowAtStart, kvVars>>

\* err := execPlan.optimizePreparedPlan(ctx, is); return p, errors.Trace(err)
optimizePreparedPlan ==
    /\ pc = "optimizePreparedPlan"
    /\ trace' = Append(trace, "optimizePreparedPlan")
    /\ \E e \in {NilErr, ErrPreparedPlan} :
          rets' = [rets EXCEPT !["Optimize"] = Ret(p, e)]
    /\ pc' = "done"
    /\ UNCHANGED <<AllowCartesianProduct, entry, p, visitInfo, optFlag, pm,
                   vi, verified, flag, input, logic, err, i, invoked, ruleArg,
                   ruleRet, allowRead, prop, task, physical>>
    /\ UNCHANGED <<allowAtStart, kvVars>>

----------------------------------------------------------------------------
(* logicalOptimize *)

\* a caller hands flag and plan straight to logicalOptimize
CallLogicalOptimize ==
    /\ Idle
    /\ Fresh
    /\ entry' = "logicalOptimize"
    /\ pm' = NoManager
    /\ pc' = "logicalOptimizeEntry"
    /\ UNCHANGED AllowCartesianProduct
    /\ UNCHANGED kvVars

LogicalOptimizeEntry ==
    /\ pc = "logicalOptimizeEntry"
    /\ \E f \in Flags, q \in SamplePlans :
          /\ flag' = f
          /\ input' = q
          /\ logic' = q
    /\ pc' = "logicalOptimize"
    /\ UNCHANGED <<AllowCartesianProduct, entry, p, visitInfo, optFlag, pm,
                   vi, verified, err, i, invoked, ruleArg, ruleRet, allowRead,
                   prop, task, physical, trace, rets>>
    /\ UNCHANGED <<allowAtStart, kvVars>>

\* every rule is handed the plan logicalOptimize was called with
RuleReceivesInput == input

\* the plan handed to rule.optimize
RuleReceives == logic

\* the rule the loop visits after rule k
NextRule(k) == k + 1

\* a return of the plan of the failing rule along with its error
RuleFailureKeepsPlan(e) == Ret(ruleRet', e)

\* return nil, errors.Trace(err) inside the loop
RuleFailure(e) == Ret(NilPlan, e)

\* position after logicalOptimize returned
AfterLogicalOptimize == IF entry = "logicalOptimize" THEN "done" ELSE "doOptimize"

\* one iteration of the loop over optRuleList, or the return after it
logicalOptimize ==
    /\ pc = "logicalOptimize"
    /\ IF i < Len(optRuleList)
       THEN IF ~RuleSelected(flag, i)
            THEN /\ i' = NextRule(i)
                 /\ pc' = "logicalOptimize"
                 /\ UNCHANGED <<logic, err, invoked, ruleArg, ruleRet, rets>>
            ELSE /\ invoked' = Append(invoked, i)
                 /\ ruleArg' = RuleReceives
                 /\ \/ \E out \in SamplePlans :
                          /\ logic' = out
                          /\ ruleRet' = out
                          /\ err' = NilErr
                          /\ i' = NextRule(i)
                          /\ pc' = "logicalOptimize"
                          /\ UNCHANGED rets
                    \/ \E out \in SamplePlans \cup {NilPlan} :
                          /\ logic' = out
                          /\ ruleRet' = out
                          /\ err' = RuleErr(i)
                          /\ rets' = [rets EXCEPT !["logicalOptimize"] = RuleFailure(err')]
                          /\ pc' = AfterLogicalOptimize
                          /\ UNCHANGED i
       ELSE /\ rets' = [rets EXCEPT !["logicalOptimize"] = Ret(logic, err)]
            /\ pc' = AfterLogicalOptimize
            /\ UNCHANGED <<logic, err, i, invoked, ruleArg, ruleRet>>
    /\ UNCHANGED <<AllowCartesianProduct, entry, p, visitInfo, optFlag, pm,
                   vi, verified, flag, input, allowRead, prop, task, physical,
                   trace>>
    /\ UNCHANGED <<allowAtStart, kvVars>>

----------------------------------------------------------------------------
(* doOptimize and physicalOptimize *)

\* doOptimize returns, and Optimize returns what doOptimize returned
ReturnDoOptimize(q, e) ==
    /\ rets' = [rets EXCEPT !["doOptimize"] = Ret(q, e), !["Optimize"] = Ret(q, e)]
    /\ pc' = "done"

\* an error of logicalOptimize that is never looked at
PipelineErrorIgnored == NilErr

\* err of logic, err := logicalOptimize(flag, logic)
PipelineError == rets["logicalOptimize"].err

\* the plan doOptimize holds after logicalOptimize returned
Rewritten == rets["logicalOptimize"].plan

\* !AllowCartesianProduct && existsCartesianProduct(logic)
GuardRejects == ~AllowCartesianProduct /\ existsCartesianProduct(Rewritten)

\* the test of the error of logicalOptimize, then the cartesian guard
doOptimize ==
    /\ pc = "doOptimize"
    /\ IF PipelineError # NilErr
       THEN /\ ReturnDoOptimize(NilPlan, PipelineError)
            /\ UNCHANGED <<allowRead, trace>>
       ELSE /\ trace' = Append(trace, "guard")
            /\ allowRead' = AllowCartesianProduct
            /\ IF GuardRejects
               THEN ReturnDoOptimize(NilPlan, ErrCartesianProductUnsupported)
               ELSE /\ pc' = "physicalOptimize"
                    /\ UNCHANGED rets
    /\ UNCHANGED <<AllowCartesianProduct, entry, p, visitInfo, optFlag, pm,
                   vi, verified, flag, input, logic, err, i, invoked, ruleArg,
                   ruleRet, prop, task, physical>>
    /\ UNCHANGED <<allowAtStart, kvVars>>

\* logic.preparePossibleProperties()
preparePossibleProperties ==
    /\ pc = "physicalOptimize"
    /\ trace' = Append(trace, "preparePossibleProperties")
    /\ pc' = "deriveStats"
    /\ UNCHANGED <<AllowCartesianProduct, entry, p, visitInfo, optFlag, pm,
                   vi, verified, flag, input, logic, err, i, invoked, ruleArg,
                   ruleRet, allowRead, prop, task, physical, rets>>
    /\ UNCHANGED <<allowAtStart, kvVars>>

\* _, err := logic.deriveStats() and the test of err
deriveStats ==
    /\ pc = "deriveStats"
    /\ trace' = Append(trace, "deriveStats")
    /\ \/ /\ pc' = "findBestTask"
          /\ UNCHANGED rets
       \/ /\ rets' = [rets EXCEPT !["physicalOptimize"] = Ret(NilPlan, ErrDeriveStats)]
          /\ pc' = "doOptimizeReturn"
    /\ UNCHANGED <<AllowCartesianProduct, entry, p, visitInfo, optFlag, pm,
                   vi, verified, flag, input, logic, err, i, invoked, ruleArg,
                   ruleRet, allowRead, prop, task, physical>>
    /\ UNCHANGED <<allowAtStart, kvVars>>

\* the tasks findBestTask can return for plan q
Tasks(q) ==
    {[plan |-> PhysicalOf(q), invalid |-> FALSE],
     [plan |-> PhysicalOf(q), invalid |-> TRUE],
     [plan |-> NilPlan, invalid |-> TRUE]}

\* t, err := logic.findBestTask(&requiredProp{...}) and the test of err
findBestTask ==
    /\ pc = "findBestTask"
    /\ trace' = Append(trace, "findBestTask")
    /\ prop' = rootProp
    /\ \/ \E t \in Tasks(Rewritten) :
             /\ task' = t
             /\ pc' = "invalid"
             /\ UNCHANGED rets
       \/ /\ rets' = [rets EXCEPT !["physicalOptimize"] = Ret(NilPlan, ErrFindBestTask)]
          /\ pc' = "doOptimizeReturn"
          /\ UNCHANGED task
    /\ UNCHANGED <<AllowCartesianProduct, entry, p, visitInfo, optFlag, pm,
                   vi, verified, flag, input, logic, err, i, invoked, ruleArg,
                   ruleRet, allowRead, physical>>
    /\ UNCHANGED <<allowAtStart, kvVars>>

\* a validity test that lets every task through
invalidIgnored(t) == FALSE

\* t.invalid()
invalid(t) == t.invalid

\* the test of t.invalid(), then t.plan(), p.ResolveIndices() and the return
physicalOptimize ==
    /\ pc = "invalid"
    /\ IF invalid(task)
       THEN /\ rets' = [rets EXCEPT !["physicalOptimize"] = Ret(NilPlan, ErrNoPhysicalPlan)]
            /\ UNCHANGED <<physical, trace>>
       ELSE /\ physical' = ResolveIndices(task.plan)
            /\ trace' = trace \o <<"plan", "ResolveIndices">>
            /\ rets' = [rets EXCEPT !["physicalOptimize"] = Ret(physical', NilErr)]
    /\ pc' = "doOptimizeReturn"
    /\ UNCHANGED <<AllowCartesianProduct, entry, p, visitInfo, optFlag, pm,
                   vi, verified, flag, input, logic, err, i, invoked, ruleArg,
                   ruleRet, allowRead, prop, task>>
    /\ UNCHANGED <<allowAtStart, kvVars>>

\* the test of the error of physicalOptimize, then
\* eliminatePhysicalProjection and the return
doOptimizeReturn ==
    /\ pc = "doOptimizeReturn"
    /\ IF rets["physicalOptimize"].err # NilErr
       THEN /\ ReturnDoOptimize(NilPlan, rets["physicalOptimize"].err)
            /\ UNCHANGED <<physical, trace>>
       ELSE /\ physical' = eliminatePhysicalProjection(rets["physicalOptimize"].plan)
            /\ trace' = Append(trace, "eliminatePhysicalProjection")
            /\ ReturnDoOptimize(physical', NilErr)
    /\ UNCHANGED <<AllowCartesianProduct, entry, p, visitInfo, optFlag, pm,
                   vi, verified, flag, input, logic, err, i, invoked, ruleArg,
                   ruleRet, allowRead, prop, task>>
    /\ UNCHANGED <<allowAtStart, kvVars>>

----------------------------------------------------------------------------
(* existsCartesianProduct on its own *)

CallExistsCartesianProduct ==
    /\ Idle
    /\ Fresh
    /\ entry' = "existsCartesianProduct"
    /\ pm' = NoManager
    /\ pc' = "existsCartesianProductEntry"
    /\ UNCHANGED AllowCartesianProduct
    /\ UNCHANGED kvVars

ExistsCartesianProductEntry ==
    /\ pc = "existsCartesianProductEntry"
    /\ input' \in AllPlans
    /\ pc' = "existsCartesianProduct"
    /\ UNCHANGED <<AllowCartesianProduct, entry, p, visitInfo, optFlag, pm,
                   vi, verified, flag, logic, err, i, invoked, ruleArg,
                   ruleRet, allowRead, prop, task, physical, trace, rets>>
    /\ UNCHANGED <<allowAtStart, kvVars>>

ExistsCartesianProductReturn ==
    /\ pc = "existsCartesianProduct"
    /\ rets' = [rets EXCEPT !["existsCartesianProduct"] = RetBool(existsCartesianProduct(input))]
    /\ pc' = "done"
    /\ UNCHANGED <<AllowCartesianProduct, entry, p, visitInfo, optFlag, pm,
                   vi, verified, flag, input, logic, err, i, invoked, ruleArg,
                   ruleRet, allowRead, prop, task, physical, trace>>
    /\ UNCHANGED <<allowAtStart, kvVars>>

----------------------------------------------------------------------------
(* memDbBuffer and BufferStore *)

\* memDbBuffer.Get
MemGet(d, k) ==
    IF ~d[k].has THEN Result(<<>>, ErrNotExist) ELSE Result(d[k].val, ErrNil)

\* s.r.Get(k), on the store behind the Retriever
RetrieverGet(st, k) ==
    IF ~st[k].has THEN Result(<<>>, ErrNotExist) ELSE Result(st[k].val, ErrNil)

\* a buffered empty value sends the read to the retriever as well
FallsThroughOnEmpty(b) == IsErrNotFound(b.err) \/ Len(b.val) = 0

\* if IsErrNotFound(err) of BufferStore.Get
FallsThrough(b) == IsErrNotFound(b.err)

\* BufferStore.Get
BufferStoreGet(d, st, k) ==
    LET b == MemGet(d, k)
        r == IF FallsThrough(b) THEN RetrieverGet(st, k) ELSE b
    IN  IF r.err # ErrNil THEN Result(<<>>, r.err)
        ELSE IF Len(r.val) = 0 THEN Result(<<>>, ErrNotExist)
        ELSE Result(r.val, ErrNil)

\* an entry test that forgets the key
EntryTooLargeValueOnly(k, v) == Len(v) > entrySizeLimit

\* len(k)+len(v) > m.entrySizeLimit
EntryTooLarge(k, v) == Len(k) + Len(v) > entrySizeLimit

\* the limits tested on the buffer as it was before the Put
CheckedBefore(d, d2) == d

\* the buffer whose Size and Len memDbBuffer.Set tests: the one after the Put
Checked(d, d2) == d2

\* memDbBuffer.Set: the buffer it leaves and the error it returns
SetOutcome(d, k, v) ==
    IF Len(v) = 0 THEN [db |-> d, err |-> ErrCannotSetNilValue]
    ELSE IF EntryTooLarge(k, v) THEN [db |-> d, err |-> ErrEntryTooLarge]
    ELSE LET d2 == Put(d, k, v)
         IN [db |-> d2,
             err |-> IF DBSize(Checked(d, d2)) > bufferSizeLimit THEN ErrTxnTooLarge
                     ELSE IF DBLen(Checked(d, d2)) > bufferLenLimit THEN ErrTxnTooLarge
                     ELSE ErrNil]

\* a Delete that removes the entry
Removed(d, k) == [d EXCEPT ![k] = NoEntry]

\* memDbBuffer.Delete: m.db.Put(k, nil)
Deleted(d, k) == Put(d, k, <<>>)

\* the record of the last call forgets the walk before it
ForgetWalk ==
    /\ iter' = NoIter
    /\ fcalls' = <<>>
    /\ viewBefore' = NoView

\* NewBufferStore(r, cap) over a store
NewBufferStore ==
    /\ kpc = "idle"
    /\ store' \in [Keys -> {NoEntry} \cup {Entry(v) : v \in StoreValues}]
    /\ db' = EmptyDB
    /\ lastWrite' = [k \in Keys |-> NoWrite]
    /\ kop' = [NoOp EXCEPT !.fn = "NewBufferStore"]
    /\ ForgetWalk
    /\ UNCHANGED <<kpc, optVars>>

Set ==
    /\ kpc = "idle"
    /\ \E k \in Keys, v \in Values :
          LET o == SetOutcome(db, k, v)
          IN /\ db' = o.db
             /\ lastWrite' = IF o.err \in {ErrCannotSetNilValue, ErrEntryTooLarge}
                             THEN lastWrite
                             ELSE [lastWrite EXCEPT ![k] = [op |-> "set", val |-> v]]
             /\ kop' = [NoOp EXCEPT !.fn = "Set", !.k = k, !.v = v, !.err = o.err]
    /\ ForgetWalk
    /\ UNCHANGED <<store, kpc, optVars>>

Delete ==
    /\ kpc = "idle"
    /\ \E k \in Keys :
          /\ db' = Deleted(db, k)
          /\ lastWrite' = [lastWrite EXCEPT ![k] = [op |-> "delete", val |-> <<>>]]
          /\ kop' = [NoOp EXCEPT !.fn = "Delete", !.k = k]
    /\ ForgetWalk
    /\ UNCHANGED <<store, kpc, optVars>>

\* BufferStore.Reset and memDbBuffer.Reset
Reset ==
    /\ kpc = "idle"
    /\ db' = EmptyDB
    /\ lastWrite' = [k \in Keys |-> NoWrite]
    /\ kop' = [NoOp EXCEPT !.fn = "Reset"]
    /\ ForgetWalk
    /\ UNCHANGED <<store, kpc, optVars>>

\* memDbBuffer.Get
Get ==
    /\ kpc = "idle"
    /\ \E k \in Keys :
          LET g == MemGet(db, k)
          IN kop' = [NoOp EXCEPT !.fn = "Get", !.k = k, !.val = g.val, !.err = g.err]
    /\ ForgetWalk
    /\ UNCHANGED <<db, store, lastWrite, kpc, optVars>>

\* BufferStore.Get
BufferStoreGetCall ==
    /\ kpc = "idle"
    /\ \E k \in Keys :
          LET g == BufferStoreGet(db, store, k)
          IN kop' = [NoOp EXCEPT !.fn = "BufferStore.Get", !.k = k, !.val = g.val,
                                 !.err = g.err, !.readR = FallsThrough(MemGet(db, k))]
    /\ ForgetWalk
    /\ UNCHANGED <<db, store, lastWrite, kpc, optVars>>

\* a Seek that leaves the new iterator before its first entry
SeekNoNext(k) == [start |-> k, idx |-> 0, open |-> TRUE, released |-> FALSE]

\* memDbBuffer.Seek: a new iterator over the keys from k on, moved by one Next
Seek(k) == [start |-> k, idx |-> 1, open |-> TRUE, released |-> FALSE]

\* the keys the iterator runs over, in its order
IterKeys(it) == SortKeys({k \in DBKeys(db) : ~KeyLess(k, it.start)})

\* memDbIter.Valid, Key, Value, Next and Close
Valid(it) == it.open /\ it.idx \in 1..Len(IterKeys(it))
Key(it) == IterKeys(it)[it.idx]
Value(it) == db[Key(it)].val
IterNext(it) == [it EXCEPT !.idx = it.idx + 1]
Close(it) == [it EXCEPT !.released = TRUE]

\* WalkMemBuffer(memBuf, f) with a caller's f, up to the loop
WalkMemBuffer ==
    /\ kpc = "idle"
    /\ iter' = Seek(NilKey)
    /\ fcalls' = <<>>
    /\ viewBefore' = NoView
    /\ kop' = [NoOp EXCEPT !.fn = "WalkMemBuffer"]
    /\ kpc' = "walk"
    /\ UNCHANGED <<db, store, lastWrite, optVars>>

\* BufferStore.SaveTo(m), through WalkBuffer and WalkMemBuffer up to the loop
SaveTo ==
    /\ kpc = "idle"
    /\ iter' = Seek(NilKey)
    /\ fcalls' = <<>>
    /\ viewBefore' = [k \in Keys |-> BufferStoreGet(db, store, k)]
    /\ kop' = [NoOp EXCEPT !.fn = "SaveTo"]
    /\ kpc' = "walk"
    /\ UNCHANGED <<db, store, lastWrite, optVars>>

\* a callback that takes every value for a value to set
IsEmptyNever(v) == FALSE

\* len(v) == 0 in the callback of SaveTo
IsEmpty(v) == Len(v) = 0

\* the call f makes for the entry (k, v)
FuncOp(k, v) ==
    IF kop.fn = "SaveTo" THEN (IF IsEmpty(v) THEN "Delete" ELSE "Set") ELSE "f"

\* what a successful f leaves in the store: m.Delete(k) or m.Set(k, v)
Applied(st, k, v) ==
    IF kop.fn = "SaveTo" THEN Put(st, k, IF IsEmpty(v) THEN <<>> ELSE v) ELSE st

\* the error of a failing f
FuncErr == IF kop.fn = "SaveTo" THEN ErrMutator ELSE ErrWalkFunc

\* one iteration of the loop of WalkMemBuffer, or its return
WalkStep ==
    /\ kpc = "walk"
    /\ IF Valid(iter)
       THEN \/ /\ fcalls' = Append(fcalls, [op |-> FuncOp(Key(iter), Value(iter)),
                                           k |-> Key(iter), v |-> Value(iter),
                                           err |-> ErrNil])
               /\ store' = Applied(store, Key(iter), Value(iter))
               /\ iter' = IterNext(iter)
               /\ UNCHANGED <<kpc, kop>>
            \/ /\ fcalls' = Append(fcalls, [op |-> FuncOp(Key(iter), Value(iter)),
                                           k |-> Key(iter), v |-> Value(iter),
                                           err |-> FuncErr])
               /\ kop' = [kop EXCEPT !.err = FuncErr]
               /\ iter' = Close(iter)
               /\ kpc' = "idle"
               /\ UNCHANGED store
       ELSE /\ kop' = [kop EXCEPT !.err = ErrNil]
            /\ iter' = Close(iter)
            /\ kpc' = "idle"
            /\ UNCHANGED <<fcalls, store>>
    /\ UNCHANGED <<db, lastWrite, viewBefore, optVars>>

----------------------------------------------------------------------------
(* Specifications *)

\* the driver: Optimize and BuildLogicalPlan, with the policy flag changing
\* under them
Next ==
    \/ SetAllowCartesianProduct
    \/ CallOptimize
    \/ CallBuildLogicalPlan
    \/ Build
    \/ Privilege
    \/ checkPrivilege
    \/ Dispatch
    \/ optimizePreparedPlan
    \/ logicalOptimize
    \/ doOptimize
    \/ preparePossibleProperties
    \/ deriveStats
    \/ findBestTask
    \/ physicalOptimize
    \/ doOptimizeReturn

Spec == Init /\ [][Next]_vars

\* logicalOptimize called with every flag
NextRules ==
    \/ CallLogicalOptimize
    \/ LogicalOptimizeEntry
    \/ logicalOptimize

SpecRules == Init /\ [][NextRules]_vars

\* existsCartesianProduct called with every plan
NextGuard ==
    \/ CallExistsCartesianProduct
    \/ ExistsCartesianProductEntry
    \/ ExistsCartesianProductReturn

SpecGuard == Init /\ [][NextGuard]_vars

\* a BufferStore over a store, with the calls on its buffer
NextKV ==
    \/ NewBufferStore
    \/ Set
    \/ Delete
    \/ Reset
    \/ Get
    \/ BufferStoreGetCall
    \/ WalkMemBuffer
    \/ SaveTo
    \/ WalkStep

SpecKV == Init /\ [][NextKV]_vars

\* the loop of WalkMemBuffer runs on once entered
SpecKVFair == SpecKV /\ WF_vars(WalkStep)

----------------------------------------------------------------------------
(* Properties of the rule pipeline *)

Last(s) == s[Len(s)]
Range(s) == {s[k] : k \in 1..Len(s)}
IsPrefix(s, t) == Len(s) <= Len(t) /\ \A k \in 1..Len(s) : s[k] = t[k]

Returned(f) == rets[f].returned

\* bit k of f, by the value of the bit
HasBit(f, k) == f % (2^(k + 1)) >= 2^k

\* the catalog indices flag f selects
SelectedRules(f) == {k \in 0..(Len(optRuleList) - 1) : HasBit(f, k)}

\* the plan the next invoked rule has to receive
PipelinePlan == IF invoked = <<>> THEN input ELSE ruleRet

InvokedAscending ==
    \A a, b \in 1..Len(invoked) : a < b => invoked[a] < invoked[b]

C2_Original ==
    Returned("logicalOptimize") => Range(invoked) = SelectedRules(flag)

\* C2 as amended: a rule whose bit is clear is never invoked and bits 8 and
\* above select nothing; when no invoked rule fails the rules invoked are
\* exactly the selected ones, and when a rule fails they are exactly the
\* selected ones up to and including the failing rule.
C2_Selection ==
    /\ Range(invoked) \subseteq SelectedRules(flag)
    /\ Returned("logicalOptimize") =>
          IF rets["logicalOptimize"].err = NilErr
          THEN Range(invoked) = SelectedRules(flag)
          ELSE Range(invoked) = {k \in SelectedRules(flag) : k <= Last(invoked)}

C2_Witness ==
    /\ entry = "logicalOptimize"
    /\ pc = "done"
    /\ flag = 2^8 + flagDecorrelate
    /\ invoked = <<3>>
    /\ rets["logicalOptimize"].err = NilErr

\* a rule has returned an error in the running call
RuleFailed == err # NilErr

SearchPhases == {"guard", "preparePossibleProperties", "deriveStats",
                 "findBestTask", "plan", "ResolveIndices",
                 "eliminatePhysicalProjection"}

\* C3: when an invoked rule returns an error, logicalOptimize invokes no
\* rule after it and returns a nil plan with that error, and doOptimize runs
\* neither the cartesian guard, nor the physical search, nor projection
\* elimination.
C3_RuleErrorAborts ==
    /\ [](RuleFailed =>
            /\ err = RuleErr(Last(invoked))
            /\ rets["logicalOptimize"] = Ret(NilPlan, err)
            /\ Range(trace) \cap SearchPhases = {}
            /\ ~Returned("physicalOptimize")
            /\ Returned("doOptimize") => rets["doOptimize"] = Ret(NilPlan, err)
            /\ pc = "done" => rets["Optimize"] = Ret(NilPlan, err))
    /\ [][(RuleFailed /\ pc # "done") => (invoked' = invoked /\ err' = err)]_vars

C3_Witness ==
    /\ entry = "Optimize"
    /\ pc = "done"
    /\ flag = flagBuildKeyInfo + flagPredicatePushDown
    /\ invoked = <<2>>
    /\ ruleRet # NilPlan
    /\ rets["Optimize"] = Ret(NilPlan, RuleErr(2))

----------------------------------------------------------------------------
(* Properties of the cartesian guard *)

\* a join that is a cartesian product by itself
IsCartesianJoin(q) ==
    /\ q.tp = "LogicalJoin"
    /\ q.EqualConditions = 0
    /\ q.JoinType \in {InnerJoin, LeftOuterJoin, RightOuterJoin}

\* the plan holds such a join at some depth
RECURSIVE ContainsCartesianJoin(_)
ContainsCartesianJoin(q) ==
    \/ IsCartesianJoin(q)
    \/ \E k \in 1..Len(q.children) : ContainsCartesianJoin(q.children[k])

\* C4: existsCartesianProduct returns true if and only if the tree holds, at
\* any depth, a join with zero equality conditions and type inner,
\* left-outer or right-outer; no other join hides such a join.
C4_Original ==
    Returned("existsCartesianProduct") =>
        rets["existsCartesianProduct"].ok = ContainsCartesianJoin(input)

PipelineSucceeded ==
    Returned("logicalOptimize") /\ rets["logicalOptimize"].err = NilErr

\* C5: given that the rule pipeline succeeded, doOptimize returns the
\* cartesian-product-unsupported error if and only if AllowCartesianProduct
\* is false and the rewritten plan contains a cartesian product; then the
\* plan returned is nil and no step of the physical search has run.
C5_Original ==
    (entry = "Optimize" /\ PipelineSucceeded /\ Returned("doOptimize")) =>
        /\ rets["doOptimize"].err = ErrCartesianProductUnsupported
              <=> (~allowRead /\ ContainsCartesianJoin(rets["logicalOptimize"].plan))
        /\ rets["doOptimize"].err = ErrCartesianProductUnsupported
              => /\ rets["doOptimize"].plan = NilPlan
                 /\ Range(trace) \cap (SearchPhases \ {"guard"}) = {}

----------------------------------------------------------------------------
(* Properties of the driver *)

PhaseOrder == <<"build", "privilege", "logicalOptimize", "guard",
                "preparePossibleProperties", "deriveStats", "findBestTask",
                "plan", "ResolveIndices", "eliminatePhysicalProjection">>

\* the phase an error of Optimize comes from
FailedPhase(e) ==
    IF e = ErrBuilder THEN "build"
    ELSE IF e = ErrPrivilegeCheckFail THEN "privilege"
    ELSE IF e = ErrCartesianProductUnsupported THEN "guard"
    ELSE IF e = ErrDeriveStats THEN "deriveStats"
    ELSE IF e \in {ErrFindBestTask, ErrNoPhysicalPlan} THEN "findBestTask"
    ELSE "logicalOptimize"

\* a visit record has been denied in the running call
Denied == verified # <<>> /\ ~RequestVerification(pm, Last(verified))

\* C6: in an Optimize call on a logical plan the phases run in the order
\* build, privilege check, rule pipeline, cartesian guard, cost search
\* (statistics before findBestTask), projection elimination, each at most
\* once and each only after the earlier ones succeeded; the first phase that
\* fails ends the call.
C6_PhaseOrder ==
    (entry = "Optimize" /\ p \notin {Execute, Insert}) =>
        /\ IsPrefix(trace, PhaseOrder)
        /\ Denied => Last(trace) = "privilege"
        /\ RuleFailed => Last(trace) = "logicalOptimize"
        /\ (Returned("physicalOptimize") /\ rets["physicalOptimize"].err # NilErr)
              => Last(trace) \in {"deriveStats", "findBestTask"}
        /\ pc = "done" =>
              IF rets["Optimize"].err = NilErr
              THEN trace = PhaseOrder
              ELSE Last(trace) = FailedPhase(rets["Optimize"].err)

C6_Witness ==
    /\ entry = "Optimize"
    /\ pc = "done"
    /\ pm.present
    /\ Len(verified) = 2
    /\ Len(invoked) = 2
    /\ rets["Optimize"].err = NilErr
    /\ trace = PhaseOrder

\* C7: Optimize returns the privilege-denial error if and only if the build
\* succeeded, a privilege manager is present and RequestVerification is
\* denied for at least one visit record; then the plan returned is nil and no
\* rule, guard, search or prepared-plan hook has run.  Records are verified
\* in accumulation order and none after the first denied one; with no
\* manager or no record the check passes.
C7_PrivilegeDenial ==
    entry = "Optimize" =>
        /\ IsPrefix(verified, visitInfo)
        /\ \A k \in 1..(Len(verified) - 1) : verified[k] \notin pm.denied
        /\ ~pm.present => verified = <<>>
        /\ pc = "done" =>
              /\ rets["Optimize"].err = ErrPrivilegeCheckFail
                    <=> /\ "build" \in Range(trace)
                        /\ rets["Optimize"].err # ErrBuilder
                        /\ pm.present
                        /\ \E k \in 1..Len(visitInfo) : visitInfo[k] \in pm.denied
              /\ rets["Optimize"].err = ErrPrivilegeCheckFail
                    => /\ rets["Optimize"].plan = NilPlan
                       /\ invoked = <<>>
                       /\ trace = <<"build", "privilege">>
                       /\ ~Returned("doOptimize")
                       /\ Last(verified) \in pm.denied

C7_Witness ==
    /\ entry = "Optimize"
    /\ pc = "done"
    /\ Len(visitInfo) = 2
    /\ Len(verified) = 1
    /\ visitInfo[2] # visitInfo[1]
    /\ pm.denied = VisitRecords
    /\ rets["Optimize"].err = ErrPrivilegeCheckFail

C9_NoInvalidTask ==
    Returned("physicalOptimize") =>
        /\ rets["physicalOptimize"].plan # NilPlan
              => /\ rets["physicalOptimize"].err = NilErr
                 /\ "findBestTask" \in Range(trace)
                 /\ task # NoTask
                 /\ ~task.invalid
                 /\ rets["physicalOptimize"].plan.of = rets["logicalOptimize"].plan
        /\ task.invalid
              => /\ rets["physicalOptimize"] = Ret(NilPlan, ErrNoPhysicalPlan)
                 /\ Range(trace) \cap {"plan", "ResolveIndices",
                                       "eliminatePhysicalProjection"} = {}
                 /\ pc = "done" => rets["Optimize"] = Ret(NilPlan, ErrNoPhysicalPlan)

C9_Witness ==
    /\ entry = "Optimize"
    /\ pc = "done"
    /\ task.invalid
    /\ task.plan # NilPlan
    /\ rets["Optimize"].err = ErrNoPhysicalPlan

\* C10: every return of Optimize, BuildLogicalPlan, doOptimize,
\* logicalOptimize and physicalOptimize carries either a plan or an error,
\* never both and never neither.
C10_Original ==
    \A f \in {"Optimize", "BuildLogicalPlan", "doOptimize", "logicalOptimize",
              "physicalOptimize"} :
        Returned(f) => ((rets[f].plan # NilPlan) # (rets[f].err # NilErr))

----------------------------------------------------------------------------
(* Properties of the policy flag, the type switch and index resolution *)

\* C11: the accept/reject decision of an optimization call is determined by
\* the value AllowCartesianProduct had when the call started, even when the
\* global is changed while the call is in progress.
C11_Original ==
    (entry = "Optimize" /\ PipelineSucceeded /\ Returned("doOptimize")) =>
        (rets["doOptimize"].err = ErrCartesianProductUnsupported
            <=> (~allowAtStart /\ existsCartesianProduct(rets["logicalOptimize"].plan)))

Count(s, x) == Cardinality({k \in 1..Len(s) : s[k] = x})

Position(s, x) == CHOOSE k \in 1..Len(s) : s[k] = x

OptimizePhases == SearchPhases \cup {"logicalOptimize"}

\* C12 as stated: for a built plan that is not a logical plan, Optimize runs
\* none of the rule pipeline, guard, search or projection elimination and
\* returns the very plan the builder produced; the prepared-plan hook is
\* invoked exactly once for an Execute plan and never for any other plan.
C12_Original ==
    (entry = "Optimize" /\ pc = "done" /\ p # NilPlan) =>
        /\ ~IsLogicalPlan(p) =>
              /\ invoked = <<>>
              /\ Range(trace) \cap OptimizePhases = {}
              /\ rets["Optimize"].plan = p
        /\ Count(trace, "optimizePreparedPlan") = IF p = Execute THEN 1 ELSE 0

\* C12 as amended: for a built plan that is not a logical plan, Optimize
\* runs none of the rule pipeline, guard, search or projection elimination;
\* when the privilege check passes it returns the very plan the builder
\* produced and invokes the prepared-plan hook exactly once for an Execute
\* plan and never for any other plan; when the privilege check fails it
\* returns a nil plan and the hook is not invoked.
C12_NonLogical ==
    (entry = "Optimize" /\ p # NilPlan) =>
        /\ ~IsLogicalPlan(p) =>
              /\ invoked = <<>>
              /\ Range(trace) \cap OptimizePhases = {}
              /\ ~Returned("doOptimize")
        /\ (p # Execute \/ Denied) => "optimizePreparedPlan" \notin Range(trace)
        /\ Count(trace, "optimizePreparedPlan") <= 1
        /\ (pc = "done" /\ ~IsLogicalPlan(p)) =>
              IF Denied
              THEN rets["Optimize"].plan = NilPlan
              ELSE /\ rets["Optimize"].plan = p
                   /\ Count(trace, "optimizePreparedPlan") = IF p = Execute THEN 1 ELSE 0

C12_Witness ==
    /\ entry = "Optimize"
    /\ pc = "done"
    /\ p = Execute
    /\ pm.present
    /\ Len(verified) = 2
    /\ ~Denied
    /\ rets["Optimize"] = Ret(Execute, NilErr)
    /\ trace = <<"build", "privilege", "optimizePreparedPlan">>

\* C13: index resolution runs exactly once per successful optimization of a
\* logical plan, over the plan of the selected root task, after findBestTask
\* has returned and before physical projection elimination; it never runs in
\* a call that fails; the root search is started with task type root,
\* unbounded expected count and no sort requirement.
C13_IndexResolution ==
    entry = "Optimize" =>
        /\ Count(trace, "ResolveIndices") <= 1
        /\ "ResolveIndices" \in Range(trace) =>
              /\ "findBestTask" \in Range(trace)
              /\ Position(trace, "findBestTask") < Position(trace, "ResolveIndices")
              /\ "eliminatePhysicalProjection" \in Range(trace) =>
                    Position(trace, "ResolveIndices")
                        < Position(trace, "eliminatePhysicalProjection")
              /\ ~task.invalid
              /\ rets["physicalOptimize"].plan.of = task.plan.of
              /\ rets["physicalOptimize"].plan.resolved
              /\ ~rets["physicalOptimize"].plan.eliminated
        /\ "findBestTask" \in Range(trace) =>
              prop = [taskTp |-> "rootTaskType", expectedCnt |-> "MaxFloat64",
                      cols |-> <<>>]
        /\ (pc = "done" /\ IsLogicalPlan(p)) =>
              IF rets["Optimize"].err = NilErr
              THEN /\ Count(trace, "ResolveIndices") = 1
                   /\ rets["Optimize"].plan.resolved
                   /\ rets["Optimize"].plan.of = task.plan.of
              ELSE "ResolveIndices" \notin Range(trace)

C13_Witness ==
    /\ entry = "Optimize"
    /\ pc = "done"
    /\ IsLogicalPlan(p)
    /\ rets["Optimize"].err = NilErr
    /\ rets["Optimize"].plan.resolved
    /\ rets["Optimize"].plan.eliminated
    /\ Len(invoked) = 2
    /\ task.plan.of # p

----------------------------------------------------------------------------
(* BufferStore and memDbBuffer *)

\* what a reader of the store gets once an empty value counts as no value
Normalised(r) ==
    IF r.err = ErrNil /\ Len(r.val) = 0 THEN Result(<<>>, ErrNotExist) ELSE r

\* the keys of the calls of f, in the order of the calls
CallKeys(fc) == [n \in 1..Len(fc) |-> fc[n].k]

\* a walk, with a caller's f or with the callback of SaveTo
Walks == {"WalkMemBuffer", "SaveTo"}

\* C14: BufferStore.Get reads the caller's own writes: after a buffered
\* Set(k, v) it returns v and after a buffered Delete(k) it returns
\* ErrNotExist, in both cases without reading the retriever, whatever the
\* retriever holds; for a key not written since the last Reset it returns the
\* retriever's answer, with an empty value of the retriever turned into
\* ErrNotExist.
C14_ReadYourWrites ==
    kop.fn = "BufferStore.Get" =>
        LET w == lastWrite[kop.k]
            r == RetrieverGet(store, kop.k)
        IN /\ w.op = "set" =>
                 /\ kop.err = ErrNil
                 /\ kop.val = w.val
                 /\ ~kop.readR
           /\ w.op = "delete" =>
                 /\ kop.err = ErrNotExist
                 /\ ~kop.readR
           /\ w.op = "none" =>
                 /\ kop.readR
                 /\ IF r.err # ErrNil THEN kop.err = r.err
                    ELSE IF Len(r.val) = 0 THEN kop.err = ErrNotExist
                    ELSE kop.err = ErrNil /\ kop.val = r.val

C14_Witness ==
    /\ kop.fn = "BufferStore.Get"
    /\ lastWrite[kop.k].op = "delete"
    /\ store[kop.k].has
    /\ Len(store[kop.k].val) > 0
    /\ kop.err = ErrNotExist
    /\ \E k \in Keys : lastWrite[k].op = "set"

\* the calls SaveTo has made so far are the calls for the first buffered keys
\* in ascending order, each key once: m.Delete(k) for an empty value,
\* m.Set(k, v) otherwise
FlushCalls ==
    /\ IsPrefix(CallKeys(fcalls), SortKeys(DBKeys(db)))
    /\ \A n \in 1..Len(fcalls) :
          /\ fcalls[n].v = db[fcalls[n].k].val
          /\ fcalls[n].op = IF Len(db[fcalls[n].k].val) = 0 THEN "Delete" ELSE "Set"
          /\ fcalls[n].err # ErrNil => n = Len(fcalls) /\ kpc = "idle"

\* SaveTo returned nil, after a call for every buffered key
FlushSucceeded ==
    /\ kop.err = ErrNil
    /\ Len(fcalls) = DBLen(db)

\* SaveTo returned the error of the mutator call it stopped at, with the calls
\* before it applied
FlushFailed ==
    /\ kop.err = ErrMutator
    /\ Len(fcalls) > 0
    /\ Last(fcalls).err = kop.err
    /\ \A n \in 1..(Len(fcalls) - 1) : store[fcalls[n].k] = Entry(fcalls[n].v)

SaveToReturned == kop.fn = "SaveTo" /\ kpc = "idle"

WalkCalls ==
    /\ IsPrefix(CallKeys(fcalls), SortKeys(DBKeys(db)))
    /\ \A n \in 1..(Len(fcalls) - 1) : KeyLess(fcalls[n].k, fcalls[n + 1].k)
    /\ \A n \in 1..Len(fcalls) :
          /\ fcalls[n].v = db[fcalls[n].k].val
          /\ fcalls[n].err # ErrNil => n = Len(fcalls) /\ kpc = "idle" /\ kop.err = fcalls[n].err

\* the walk returned: nil after a call for every entry, or the error of the
\* last call; the iterator is closed
WalkReturned ==
    /\ iter.released
    /\ kop.err = ErrNil => Len(fcalls) = DBLen(db)
    /\ kop.err # ErrNil => Len(fcalls) > 0 /\ Last(fcalls).err = kop.err

C16_WalkInv ==
    kop.fn \in Walks =>
        /\ WalkCalls
        /\ kpc = "idle" => WalkReturned
        /\ kpc = "walk" => iter.open /\ ~iter.released

\* C16: WalkMemBuffer terminates, calls f once for every buffered entry,
\* tombstones included, in strictly ascending key order; an error of f stops
\* the walk at that entry and is returned; the iterator is closed on both
\* returns.
C16_Walk == []C16_WalkInv /\ ((kpc = "walk") ~> (kpc = "idle"))

C16_Witness ==
    /\ kop.fn = "WalkMemBuffer"
    /\ kpc = "idle"
    /\ kop.err = ErrNil
    /\ iter.released
    /\ Len(fcalls) = Cardinality(Keys)
    /\ \E n \in 1..Len(fcalls) : Len(fcalls[n].v) = 0
    /\ \E n \in 1..Len(fcalls) : Len(fcalls[n].v) > 0

\* the errors with which memDbBuffer.Set rejects an entry before the Put
Rejections == {ErrCannotSetNilValue, ErrEntryTooLarge}

\* the step is a call of memDbBuffer.Set
SetStep == kop'.fn = "Set" /\ <<kop, db, lastWrite, iter>>' # <<kop, db, lastWrite, iter>>

\* the step is a call of memDbBuffer.Delete
DeleteStep == kop'.fn = "Delete" /\ <<kop, db, lastWrite, iter>>' # <<kop, db, lastWrite, iter>>

C17_Rejected ==
    kop.fn = "Set" =>
        /\ Len(kop.v) = 0 => kop.err = ErrCannotSetNilValue
        /\ Len(kop.v) > 0 /\ Len(kop.k) + Len(kop.v) > entrySizeLimit =>
              kop.err = ErrEntryTooLarge
        /\ kop.err = ErrCannotSetNilValue => Len(kop.v) = 0
        /\ kop.err = ErrEntryTooLarge => Len(kop.k) + Len(kop.v) > entrySizeLimit

C17_Unchanged ==
    kop'.fn = "Set" /\ kop'.err \in Rejections =>
        /\ db' = db
        /\ DBLen(db') = DBLen(db)
        /\ DBSize(db') = DBSize(db)

\* C17: memDbBuffer.Set answers an empty value with ErrCannotSetNilValue and
\* an entry of len(k)+len(v) above entrySizeLimit with ErrEntryTooLarge, the
\* empty value first when both hold, and leaves the buffer as it was in both
\* cases.
C17_SetRejects == []C17_Rejected /\ [][C17_Unchanged]_vars

C17_Witness ==
    /\ kop.fn = "Set"
    /\ kop.err = ErrEntryTooLarge
    /\ Len(kop.v) > 0
    /\ Len(kop.v) <= entrySizeLimit
    /\ DBLen(db) > 0
    /\ ~db[kop.k].has

\* an empty value for a key that is itself above the entry size limit
C17_BothApply ==
    /\ kop.fn = "Set"
    /\ Len(kop.v) = 0
    /\ Len(kop.k) + Len(kop.v) > entrySizeLimit
    /\ kop.err = ErrCannotSetNilValue

C18_AfterSet ==
    kop.fn = "Set" =>
        /\ kop.err = ErrTxnTooLarge =>
              /\ MemGet(db, kop.k) = Result(kop.v, ErrNil)
              /\ kop.k \in DBKeys(db)
              /\ DBSize(db) > bufferSizeLimit \/ DBLen(db) > bufferLenLimit
        /\ kop.err = ErrNil =>
              /\ DBLen(db) <= bufferLenLimit
              /\ DBSize(db) <= bufferSizeLimit
              /\ MemGet(db, kop.k) = Result(kop.v, ErrNil)

C18_Stored ==
    /\ SetStep /\ kop'.err \notin Rejections => db' = Put(db, kop'.k, kop'.v)
    /\ DeleteStep => kop'.err = ErrNil /\ db' = Put(db, kop'.k, <<>>)

\* C18: memDbBuffer.Set tests the size and count limits after the Put: a Set
\* answered with ErrTxnTooLarge has stored its entry, Delete stores its
\* tombstone without any test, so the buffer can be above both limits; a Set
\* that returns nil leaves Len and Size within the limits.
C18_LimitsAfterInsert == []C18_AfterSet /\ [][C18_Stored]_vars

C18_Witness ==
    /\ kop.fn = "Set"
    /\ kop.err = ErrTxnTooLarge
    /\ db[kop.k] = Entry(kop.v)
    /\ DBLen(db) > bufferLenLimit
    /\ DBSize(db) > bufferSizeLimit
    /\ \E k \in Keys : lastWrite[k].op = "delete"

C19_Tombstone ==
    /\ kop.fn = "Delete" =>
          /\ MemGet(db, kop.k) = Result(<<>>, ErrNil)
          /\ kop.k \in DBKeys(db)
          /\ DBLen(db) >= 1
    /\ kop.fn = "Get" /\ lastWrite[kop.k].op = "delete" =>
          kop.val = <<>> /\ kop.err = ErrNil
    /\ kop.fn = "Get" /\ lastWrite[kop.k].op = "set" =>
          kop.val = lastWrite[kop.k].val /\ kop.err = ErrNil
    /\ kop.fn = "Get" /\ lastWrite[kop.k].op = "none" => kop.err = ErrNotExist
    /\ kop.fn \in Walks /\ kpc = "idle" /\ kop.err = ErrNil =>
          \A k \in Keys : lastWrite[k].op = "delete" =>
              \E n \in 1..Len(fcalls) : fcalls[n].k = k /\ fcalls[n].v = <<>>
    /\ \A k \in Keys : lastWrite[k].op # "none" <=> k \in DBKeys(db)

C19_KeysGrow ==
    /\ SetStep \/ DeleteStep => DBKeys(db) \subseteq DBKeys(db')
    /\ SetStep /\ db[kop'.k] = Entry(<<>>) /\ kop'.err \notin Rejections =>
          db'[kop'.k] = Entry(kop'.v)
    /\ ~(DBKeys(db) \subseteq DBKeys(db')) =>
          kop'.fn \in {"Reset", "NewBufferStore"} /\ db' = EmptyDB

====
